---- MODULE Spec2Model ----
(***************************************************************************)
(* Model of the content indexing and retrieval pipeline of the RAG        *)
(* backend: IndexingService.reindex_full and the steps it drives          *)
(* (index_documents, EmbeddingService.embed_chunks with its retry loop,   *)
(* upsert_chunks_to_qdrant, the swap of the published name), a reader     *)
(* searching the published name, and the query endpoints.                 *)
(*                                                                        *)
(* The vector store (Qdrant) is a server outside the repository.  It is   *)
(* modelled by its observable contract: named collections holding points, *)
(* an alias table, and calls that are atomic one by one and that may each *)
(* raise.  Rebuilds run one at a time (the orchestrator owns a rebuild    *)
(* exclusively).  Spec is the rebuilds alone; SpecReader adds searches    *)
(* interleaved at every step; SpecScripts adds the indexing scripts;      *)
(* SpecQuery is the query endpoints.                                      *)
(*                                                                        *)
(* The components the pipeline is built from are each run on their own:   *)
(* SpecChunker (ContentChunker.chunk_sections), SpecParser                *)
(* (MarkdownParser._extract_sections), SpecLimiter                        *)
(* (RateLimiter.check_rate_limit), SpecTranslator                         *)
(* (TranslationService.translate), SpecScenario (one section of three     *)
(* paragraphs), SpecAssembly (assemble_context_and_citations and the      *)
(* prompt and citations of ResponseService), SpecUpload (a call of        *)
(* upsert_chunks_to_qdrant alone) and SpecSplitter (chunk_text of the     *)
(* indexing scripts; FairSpecSplitter adds that a call keeps running).    *)
(***************************************************************************)
EXTENDS Integers, Sequences, FiniteSets, TLC

\* ---------------------------------------------------------------- bounds
MaxRuns == 2
MaxFiles == 2
MaxTime == 1
\* batch_size of embed_chunks and of upsert_chunks_to_qdrant, scaled down
\* from the code's 100 so that a run has more than one batch.
EmbedBatchSize == 1
UpsertBatchSize == 1
\* points one run of an indexing script uploads
MaxScriptPoints == 1
\* sections of a document, paragraphs of a section
MaxSections == 2
MaxParas == 2
\* headings of a document
MaxHeadings == 4
\* RateLimiter(limit, window_seconds), scaled down from (10, 60), and the
\* last reading of the clock
limit == 2
window_seconds == 2
MaxClock == 3
\* ContentChunker.max_tokens, scaled down from RAG_CHUNK_MAX_TOKENS = 500
max_tokens == 2
\* the scenario of max_tokens = 500 and a body of 600 tokens, scaled down
ScenarioMaxTokens == 20
ScenarioBodyTokens == 24
\* chunks a search returns; max_context_length, scaled down from 6000
MaxResults == 3
max_context_length == 4
\* chunks handed to one direct call of upsert_chunks_to_qdrant
MaxUploadChunks == 2
\* tokens of a text handed to chunk_text, and the largest max_tokens
MaxTextTokens == 6
MaxChunkTokens == 3

\* ------------------------------------------------------ program constants
max_retries == 3
RAG_TOP_K_CHUNKS == 7
\* tokens of the paragraph separator "\n\n" in the cl100k_base encoding
SepTokens == 1
\* characters of the "\n" that joins the parts of a context
JoinChars == 1
\* TranslationService: self.max_retries and self.base_delay
translate_max_retries == 3
base_delay == 1

Times == 0..MaxTime

\* ------------------------------------------------------------------ names
\* settings.QDRANT_COLLECTION, the name every reader searches.  Names are
\* triples so that the published name and the staging names are comparable.
QDRANT_COLLECTION == <<"textbook_chunks", "", 0>>

\* f"{settings.QDRANT_COLLECTION}_temp_{timestamp}", timestamp = int(time.time())
TempCollectionName(timestamp) == <<"textbook_chunks", "_temp_", timestamp>>

Names == {QDRANT_COLLECTION} \cup {TempCollectionName(t) : t \in Times}

\* ----------------------------------------------------------------- corpus
\* What parse_file + chunk_sections make of one markdown file: an exception
\* (unreadable, undecodable, parse error), or a number of chunks (0 when the
\* file has no sections or the chunker returns nothing).
FileOutcomes ==
    { [raises |-> TRUE, chunks |-> 0],
      [raises |-> FALSE, chunks |-> 0],
      [raises |-> FALSE, chunks |-> 1] }

RECURSIVE SeqsUpTo(_, _)
SeqsUpTo(S, n) ==
    IF n = 0 THEN { <<>> }
    ELSE LET shorter == SeqsUpTo(S, n - 1)
         IN  shorter \cup { Append(s, x) : s \in { t \in shorter : Len(t) = n - 1 }, x \in S }

\* The docs directory: missing, or the list rglob("*.md") returns.
NoDir == [exists |-> FALSE, files |-> <<>>]
Corpora == {NoDir} \cup { [exists |-> TRUE, files |-> fs] : fs \in SeqsUpTo(FileOutcomes, MaxFiles) }

\* Outcomes of one call of client.embeddings.create.  RateLimitError is an
\* OpenAIError; "api_error" is any other OpenAIError; "unexpected" is an
\* exception that is not an OpenAIError.
ProviderOutcomes == {"ok", "rate_limit", "api_error", "unexpected"}

\* For the calls a request makes the OpenAIErrors that a retry cannot cure
\* (AuthenticationError, BadRequestError) are told apart: "auth_error".
RequestProviderOutcomes == ProviderOutcomes \cup {"auth_error"}

\* except RateLimitError, except OpenAIError
OpenAIErrors == {"rate_limit", "api_error", "auth_error"}

NoEmbedding == [set |-> FALSE, call |-> 0]

VARIABLES
    \* the vector store
    collections,        \* function: name of an existing collection -> its set of points
    aliases,            \* function: alias name -> name of the collection it points to
    \* the environment
    now,                \* int(time.time())
    corpus,             \* the docs directory
    \* the current reindex_full run
    pc,                 \* position of the run in reindex_full
    temp_collection,    \* the run's staging name
    file_idx,           \* index_documents: next file of md_files
    all_chunks,         \* index_documents: chunks collected (ContentChunk, embedding in place)
    embed_i,            \* embed_chunks: start of the current batch (1-based)
    attempt,            \* _embed_texts_with_retry: attempt of the current batch
    embedded_chunks,    \* embed_chunks: chunks embedded so far
    upsert_i,           \* upsert_chunks_to_qdrant: start of the current batch
    uuid_count,         \* uuid4 values drawn by the run
    existing_collections, \* the listing read by the swap step
    response,           \* the ReindexResponse returned
    \* history
    run_no,             \* number of reindex_full runs started
    names_taken,        \* staging names chosen by the runs before the current one
    call_log,           \* per embedding batch of the run, the outcomes of its provider calls
    wait_log,           \* per embedding batch of the run, the seconds slept after its calls
    failed_at,          \* the step whose exception ended the run ("" when none)
    prev_points,        \* what the published name resolved to when the run started,
                        \* and whether the run before it completed
    \* the reader
    search,             \* the last retrieve_relevant_chunks against the published name
                        \* since the current run started
    \* the request being handled by a query endpoint
    req_pc,             \* position of the handler
    request,            \* the request body, after schema validation
    req_attempt,        \* attempt of the retry loop the handler is in
    req_log,            \* the provider calls and sleeps of the request, in order
    retrieved_chunks,   \* chunks / search_results: what the vector search returned
    context,            \* what the prompt of the completion call is built from
    citations,          \* rag_query: the citations assembled before the completion
    searched,           \* whether the handler has searched the vector store
    http_response,      \* what the caller receives
    \* the library components, each the state of one call
    chunker,            \* ContentChunker.chunk_sections: its locals
    parser,             \* MarkdownParser._extract_sections: its locals
    limiter,            \* RateLimiter: request_timestamps, the clock, what was decided
    translator,         \* TranslationService.translate: its arguments, loop and outcome
    assembly,           \* context assembly and citation extraction: input and result
    splitter            \* chunk_text of the indexing scripts: its arguments and locals

storeVars == <<collections, aliases>>
envVars == <<now, corpus>>
runVars == <<pc, temp_collection, file_idx, all_chunks, embed_i, attempt, embedded_chunks,
             upsert_i, uuid_count, existing_collections, response>>
histVars == <<run_no, names_taken, call_log, wait_log, failed_at, prev_points>>
queryVars == <<req_pc, request, req_attempt, req_log, retrieved_chunks, context, citations,
               searched, http_response>>
libVars == <<chunker, parser, limiter, translator, assembly, splitter>>
vars == <<storeVars, envVars, runVars, histVars, search, queryVars, libVars>>

\* ------------------------------------------------------------ the store
\* The collection a name resolves to, as a set: itself when a collection
\* has that name, the alias target otherwise, empty when neither.
Resolve(name) ==
    IF name \in DOMAIN collections THEN {name}
    ELSE IF name \in DOMAIN aliases /\ aliases[name] \in DOMAIN collections
         THEN {aliases[name]}
         ELSE {}

Resolves(name) == Resolve(name) # {}

PointsOf(name) == UNION { collections[c] : c \in Resolve(name) }

\* delete_collection removes the collection and every alias pointing to it.
StoreDelete(name) ==
    /\ collections' = [c \in (DOMAIN collections) \ {name} |-> collections[c]]
    /\ aliases' = [a \in { b \in DOMAIN aliases : aliases[b] # name } |-> aliases[a]]

\* ------------------------------------------------------------------ Init
OldPoint == [id |-> <<0, 1>>, file |-> 0, index |-> 1, vector |-> 1]

NoCollections == [c \in {} |-> {}]
NoAliases == [a \in {} |-> QDRANT_COLLECTION]

\* What is under the published name before any reindex_full: nothing (a
\* fresh store), the empty collection init_collection creates at startup, or
\* that collection filled in place by the indexing scripts.
InitialStores ==
    { NoCollections,
      [c \in {QDRANT_COLLECTION} |-> {}],
      [c \in {QDRANT_COLLECTION} |-> {OldPoint}] }

NoResponse == [status |-> "none", total_files |-> 0, total_chunks |-> 0]
NoSearch == [status |-> "none", count |-> 0, gens |-> {}, during |-> FALSE, prev_nonempty |-> FALSE]
NoPrev == [resolved |-> FALSE, points |-> {}, completed |-> FALSE]

\* The locals of a run before its first statement.
FreshRun ==
    /\ file_idx' = 1
    /\ all_chunks' = <<>>
    /\ embed_i' = 1
    /\ attempt' = 1
    /\ embedded_chunks' = <<>>
    /\ upsert_i' = 1
    /\ uuid_count' = 0
    /\ existing_collections' = {}
    /\ response' = NoResponse
    /\ call_log' = <<>>
    /\ wait_log' = <<>>
    /\ failed_at' = ""

\* No request is being handled.
NoRequest == [endpoint |-> "none", mode |-> "none", question_ok |-> TRUE,
              selected_text |-> FALSE, doc_path |-> FALSE]
NoHttpResponse == [status_code |-> 0, answer |-> FALSE, citations |-> {},
                   retrieved_chunks |-> 0, raised |-> ""]

QueryIdle ==
    /\ req_pc = "idle"
    /\ request = NoRequest
    /\ req_attempt = 1
    /\ req_log = <<>>
    /\ retrieved_chunks = {}
    /\ context = {}
    /\ citations = {}
    /\ searched = FALSE
    /\ http_response = NoHttpResponse

\* chunk_sections has not been called.
NoChunker == [pc |-> "idle", sections |-> 0, all_chunks |-> <<>>, chunk_index |-> 0,
              section |-> <<>>, text_chunks |-> <<>>, code_chunks |-> <<>>]

NoParser == [pc |-> "idle", heading_matches |-> <<>>, hierarchy_stack |-> <<>>,
             sections |-> <<>>]

\* The hosts requests come from; a request without client information has
\* none.
Hosts == {"192.168.1.1"}
NoClient == "None"

\* _get_client_ip
GetClientIp(client) == IF client = NoClient THEN "unknown" ELSE client

ClientIps == { GetClientIp(c) : c \in Hosts \cup {NoClient} }

NoDecision == [client_ip |-> "", status_code |-> 0]

\* RateLimiter.__init__: no timestamps.  accepted is, for every IP, the
\* times of all its requests that were accepted so far; last is the latest
\* decision made at the present reading of the clock.
NoLimiter == [request_timestamps |-> [ip \in ClientIps |-> <<>>],
              time |-> 0,
              accepted |-> [ip \in ClientIps |-> <<>>],
              last |-> NoDecision]

NoTranslator == [pc |-> "idle", text |-> "", source_language |-> "",
                 target_language |-> "", attempt |-> 0, log |-> <<>>,
                 result |-> <<>>, raised |-> ""]

NoAssembly == [op |-> "none", search_results |-> <<>>, context_parts |-> <<>>,
               context_length |-> 0, citations |-> <<>>]

NoSplitter == [pc |-> "idle", fn |-> "", tokens |-> 0, max_tokens |-> 0,
               overlap_tokens |-> 0, start |-> 0, chunk |-> <<0, 0>>, odd |-> FALSE]

LibIdle ==
    /\ chunker = NoChunker
    /\ parser = NoParser
    /\ limiter = NoLimiter
    /\ translator = NoTranslator
    /\ assembly = NoAssembly
    /\ splitter = NoSplitter

Init ==
    /\ collections \in InitialStores
    /\ aliases = NoAliases
    /\ now = 0
    /\ corpus \in Corpora
    /\ pc = "idle"
    /\ temp_collection = QDRANT_COLLECTION
    /\ file_idx = 1
    /\ all_chunks = <<>>
    /\ embed_i = 1
    /\ attempt = 1
    /\ embedded_chunks = <<>>
    /\ upsert_i = 1
    /\ uuid_count = 0
    /\ existing_collections = {}
    /\ response = NoResponse
    /\ run_no = 0
    /\ names_taken = {}
    /\ call_log = <<>>
    /\ wait_log = <<>>
    /\ failed_at = ""
    /\ prev_points = NoPrev
    /\ search = NoSearch
    /\ QueryIdle
    /\ LibIdle

\* ------------------------------------------------------- reindex_full
Min(a, b) == IF a < b THEN a ELSE b

\* A variant without the except branch: the exception leaves reindex_full
\* and no summary is returned.
FailPropagates(step) ==
    /\ pc' = "done"
    /\ response' = NoResponse
    /\ failed_at' = step

\* The except branch of reindex_full: whatever raised, the run returns a
\* failed summary with zero counts.
Fail(step) ==
    /\ pc' = "done"
    /\ response' = [status |-> "failed", total_files |-> 0, total_chunks |-> 0]
    /\ failed_at' = step

Active == pc \notin {"idle", "done"}

\* timestamp = int(time.time()); temp_collection = f"..._temp_{timestamp}"
StartRun ==
    /\ ~Active
    /\ run_no < MaxRuns
    /\ pc' = "create"
    /\ run_no' = run_no + 1
    /\ temp_collection' = TempCollectionName(now)
    /\ names_taken' = IF run_no = 0 THEN {} ELSE names_taken \cup {temp_collection}
    /\ prev_points' = [resolved |-> Resolves(QDRANT_COLLECTION),
                       points |-> PointsOf(QDRANT_COLLECTION),
                       completed |-> response.status = "completed"]
    /\ FreshRun
    /\ search' = NoSearch
    /\ UNCHANGED <<storeVars, envVars>>
    /\ UNCHANGED queryVars
    /\ UNCHANGED libVars

\* Step 1: client.create_collection(temp_collection), which raises when the
\* name is taken (or when the call itself fails).
CreateCollection ==
    /\ pc = "create"
    /\ \E fault \in BOOLEAN :
        IF fault \/ temp_collection \in DOMAIN collections
                 \/ temp_collection \in DOMAIN aliases
        THEN /\ Fail("create_collection")
             /\ UNCHANGED collections
        ELSE /\ collections' = (temp_collection :> {}) @@ collections
             /\ pc' = "scan"
             /\ UNCHANGED <<response, failed_at>>
    /\ UNCHANGED <<aliases, envVars, temp_collection, file_idx, all_chunks, embed_i,
                   attempt, embedded_chunks, upsert_i, uuid_count,
                   existing_collections, run_no, names_taken, call_log, wait_log,
                   prev_points,
                   search>>
    /\ UNCHANGED queryVars
    /\ UNCHANGED libVars

\* index_documents: the existence check and md_files = list(rglob("*.md")).
ScanDocs ==
    /\ pc = "scan"
    /\ IF ~corpus.exists
       THEN Fail("index_documents")
       ELSE /\ pc' = "index"
            /\ UNCHANGED <<response, failed_at>>
    /\ UNCHANGED <<storeVars, envVars, temp_collection, file_idx, all_chunks, embed_i,
                   attempt, embedded_chunks, upsert_i, uuid_count, existing_collections,
                   run_no, names_taken, call_log, wait_log,
                   prev_points, search>>
    /\ UNCHANGED queryVars
    /\ UNCHANGED libVars

ChunksOfFile(f, n) == [k \in 1..n |-> [file |-> f, index |-> k, embedding |-> NoEmbedding]]

\* What one pass of the for loop over md_files adds to all_chunks: nothing
\* when parse_file or chunk_sections raises (caught, logged, continue),
\* nothing when the file has no sections, the file's chunks otherwise.
FileChunks(f, outcome) ==
    IF outcome.raises THEN <<>> ELSE ChunksOfFile(f, outcome.chunks)

\* A variant of the loop body without the try/except: the exception of a
\* bad file leaves index_documents.
ProcessFileAborts ==
    /\ pc = "index"
    /\ file_idx <= Len(corpus.files)
    /\ IF corpus.files[file_idx].raises
       THEN /\ Fail("index_documents")
            /\ UNCHANGED <<all_chunks, file_idx>>
       ELSE /\ all_chunks' = all_chunks \o FileChunks(file_idx, corpus.files[file_idx])
            /\ file_idx' = file_idx + 1
            /\ UNCHANGED <<pc, response, failed_at>>
    /\ UNCHANGED <<storeVars, envVars, temp_collection, embed_i, attempt,
                   embedded_chunks, upsert_i, uuid_count, existing_collections,
                   run_no, names_taken, call_log, wait_log,
                   prev_points, search>>
    /\ UNCHANGED queryVars
    /\ UNCHANGED libVars

ProcessFile ==
    /\ pc = "index"
    /\ file_idx <= Len(corpus.files)
    /\ all_chunks' = all_chunks \o FileChunks(file_idx, corpus.files[file_idx])
    /\ file_idx' = file_idx + 1
    /\ UNCHANGED <<storeVars, envVars, pc, temp_collection, embed_i, attempt,
                   embedded_chunks, upsert_i, uuid_count, existing_collections,
                   response, histVars, search>>
    /\ UNCHANGED queryVars
    /\ UNCHANGED libVars

NumBatches(n, size) == (n + size - 1) \div size

\* After the loop: embed_chunks(all_chunks) when there are chunks, else
\* embedded_chunks = [] and index_documents returns.
EndFiles ==
    /\ pc = "index"
    /\ file_idx > Len(corpus.files)
    /\ IF all_chunks # <<>>
       THEN /\ pc' = "embed"
            /\ call_log' = [b \in 1..NumBatches(Len(all_chunks), EmbedBatchSize) |-> <<>>]
            /\ wait_log' = [b \in 1..NumBatches(Len(all_chunks), EmbedBatchSize) |-> <<>>]
       ELSE /\ pc' = "upload"
            /\ UNCHANGED <<call_log, wait_log>>
    /\ UNCHANGED <<storeVars, envVars, temp_collection, file_idx, all_chunks, embed_i,
                   attempt, embedded_chunks, upsert_i, uuid_count, existing_collections,
                   response, run_no, names_taken, failed_at, prev_points, search>>
    /\ UNCHANGED queryVars
    /\ UNCHANGED libVars

\* --------------------------------------------------------- embed_chunks
\* batch = chunks[i : i + batch_size], as the 1-based index range.
BatchRange(i, size, n) == i .. Min(i + size - 1, n)

BatchNo(i, size) == ((i - 1) \div size) + 1

\* The except branches of _embed_texts_with_retry: RateLimitError and
\* OpenAIError sleep 2**attempt and go round again while
\* attempt < max_retries, and re-raise on the last attempt; any other
\* exception is re-raised at once.
\* A variant of the wait that starts at one second.
WaitTimeFromOne(att) == 2 ^ (att - 1)

\* wait_time = 2**attempt
WaitTime(att) == 2 ^ att

ShouldRetry(outcome, att) ==
    /\ outcome \in OpenAIErrors
    /\ att < max_retries

\* for chunk, embedding in zip(batch, embeddings): chunk.embedding = embedding
\* The vector is named by the call of the batch that returned it.
SetEmbeddings(chunks, range, call) ==
    [k \in 1..Len(chunks) |->
        IF k \in range
        THEN [chunks[k] EXCEPT !.embedding = [set |-> TRUE, call |-> call]]
        ELSE chunks[k]]

\* One call of client.embeddings.create for the current batch, with what
\* the loops of _embed_texts_with_retry and embed_chunks do with its outcome.
EmbedCall ==
    /\ pc = "embed"
    /\ \E outcome \in ProviderOutcomes :
        LET n == Len(all_chunks)
            range == BatchRange(embed_i, EmbedBatchSize, n)
            b == BatchNo(embed_i, EmbedBatchSize)
            updated == SetEmbeddings(all_chunks, range, attempt)
            next_i == embed_i + EmbedBatchSize
        IN  /\ call_log' = [call_log EXCEPT ![b] = Append(@, outcome)]
            /\ IF outcome = "ok"
               THEN /\ all_chunks' = updated
                    /\ embedded_chunks' = embedded_chunks \o
                           [k \in 1..Cardinality(range) |-> updated[embed_i + k - 1]]
                    /\ embed_i' = next_i
                    /\ attempt' = 1
                    /\ pc' = IF next_i > n THEN "upload" ELSE "embed"
                    /\ UNCHANGED <<response, failed_at, wait_log>>
               ELSE IF ShouldRetry(outcome, attempt)
               THEN /\ attempt' = attempt + 1
                    /\ wait_log' = [wait_log EXCEPT ![b] = Append(@, WaitTime(attempt))]
                    /\ UNCHANGED <<pc, all_chunks, embedded_chunks, embed_i,
                                   response, failed_at>>
               ELSE /\ Fail("embed_chunks")
                    /\ UNCHANGED <<all_chunks, embedded_chunks, embed_i, attempt, wait_log>>
    /\ UNCHANGED <<storeVars, envVars, temp_collection, file_idx, upsert_i, uuid_count,
                   existing_collections, run_no, names_taken, prev_points, search>>
    /\ UNCHANGED queryVars
    /\ UNCHANGED libVars

\* ---------------------------------------------- upsert_chunks_to_qdrant
\* A variant of to_qdrant_point without the check of self.embedding.
CanConvertAlways(chunk) == TRUE

\* ContentChunk.to_qdrant_point: raises ValueError without an embedding.
CanConvert(chunk) == chunk.embedding.set

to_qdrant_point(chunk, chunk_id) ==
    [id |-> chunk_id, file |-> chunk.file, index |-> chunk.index,
     vector |-> chunk.embedding.call]

\* A variant of the slice that drops its start: chunks[: i + batch_size].
UpsertRangeFromStart(i, size, n) == 1 .. Min(i + size - 1, n)

\* batch = chunks[i : i + batch_size]
UpsertRange(i, size, n) == BatchRange(i, size, n)

\* The points of one upload batch: a fresh uuid4 per chunk (named by the
\* run and the draw), the chunks whose conversion raises ValueError skipped.
BatchPoints(chunks, range) ==
    { to_qdrant_point(chunks[k], <<run_no, uuid_count + Cardinality({ j \in range : j <= k })>>) :
        k \in { j \in range : CanConvert(chunks[j]) } }

\* One pass of the for loop of upsert_chunks_to_qdrant over the chunks
\* index_documents returned.
UpsertBatch ==
    /\ pc = "upload"
    /\ upsert_i <= Len(embedded_chunks)
    /\ LET chunks == embedded_chunks
           range == UpsertRange(upsert_i, UpsertBatchSize, Len(chunks))
           points == BatchPoints(chunks, range)
       IN  \E fault \in BOOLEAN :
            IF points # {} /\ (fault \/ temp_collection \notin DOMAIN collections)
            THEN /\ Fail("upsert")
                 /\ UNCHANGED <<collections, upsert_i, uuid_count>>
            ELSE /\ collections' = [collections EXCEPT ![temp_collection] = @ \cup points]
                 /\ uuid_count' = uuid_count + Cardinality(range)
                 /\ upsert_i' = upsert_i + UpsertBatchSize
                 /\ UNCHANGED <<pc, response, failed_at>>
    /\ UNCHANGED <<aliases, envVars, temp_collection, file_idx, all_chunks, embed_i,
                   attempt, embedded_chunks, existing_collections, run_no, names_taken,
                   call_log, wait_log, prev_points, search>>
    /\ UNCHANGED queryVars
    /\ UNCHANGED libVars

\* A variant in which upsert_chunks_to_qdrant returns before its loop is
\* over.
UploadDoneEarly ==
    /\ pc = "upload"
    /\ pc' = "swap_list"
    /\ UNCHANGED <<storeVars, envVars, temp_collection, file_idx, all_chunks, embed_i,
                   attempt, embedded_chunks, upsert_i, uuid_count, existing_collections,
                   response, histVars, search>>
    /\ UNCHANGED queryVars
    /\ UNCHANGED libVars

\* upsert_chunks_to_qdrant returns: at once when chunks is empty, after the
\* last batch otherwise.
UploadDone ==
    /\ pc = "upload"
    /\ upsert_i > Len(embedded_chunks)
    /\ pc' = "swap_list"
    /\ UNCHANGED <<storeVars, envVars, temp_collection, file_idx, all_chunks, embed_i,
                   attempt, embedded_chunks, upsert_i, uuid_count, existing_collections,
                   response, histVars, search>>
    /\ UNCHANGED queryVars
    /\ UNCHANGED libVars

\* ------------------------------------------------------------ the swap
\* existing_collections = [col.name for col in client.get_collections().collections]
\* The listing holds collections, not aliases.
SwapList ==
    /\ pc = "swap_list"
    /\ \E fault \in BOOLEAN :
        IF fault
        THEN /\ Fail("get_collections")
             /\ UNCHANGED existing_collections
        ELSE /\ existing_collections' = DOMAIN collections
             /\ pc' = IF QDRANT_COLLECTION \in DOMAIN collections
                      THEN "swap_delete" ELSE "swap_alias"
             /\ UNCHANGED <<response, failed_at>>
    /\ UNCHANGED <<storeVars, envVars, temp_collection, file_idx, all_chunks, embed_i,
                   attempt, embedded_chunks, upsert_i, uuid_count, run_no, names_taken,
                   call_log, wait_log, prev_points, search>>
    /\ UNCHANGED queryVars
    /\ UNCHANGED libVars

\* if alias_name in existing_collections: client.delete_collection(alias_name)
SwapDelete ==
    /\ pc = "swap_delete"
    /\ \E fault \in BOOLEAN :
        IF fault
        THEN /\ Fail("delete_collection")
             /\ UNCHANGED storeVars
        ELSE /\ StoreDelete(QDRANT_COLLECTION)
             /\ pc' = "swap_alias"
             /\ UNCHANGED <<response, failed_at>>
    /\ UNCHANGED <<envVars, temp_collection, file_idx, all_chunks, embed_i, attempt,
                   embedded_chunks, upsert_i, uuid_count, existing_collections,
                   run_no, names_taken, call_log, wait_log,
                   prev_points, search>>
    /\ UNCHANGED queryVars
    /\ UNCHANGED libVars

\* client.update_collection_aliases([create_alias(temp_collection, alias_name)])
\* and the return of the completed summary.  The store refuses an alias
\* whose name is a collection's or whose target does not exist.
SwapAlias ==
    /\ pc = "swap_alias"
    /\ \E fault \in BOOLEAN :
        IF fault \/ temp_collection \notin DOMAIN collections
                 \/ QDRANT_COLLECTION \in DOMAIN collections
        THEN /\ Fail("update_collection_aliases")
             /\ UNCHANGED aliases
        ELSE /\ aliases' = (QDRANT_COLLECTION :> temp_collection) @@ aliases
             /\ pc' = "done"
             /\ response' = [status |-> "completed",
                             total_files |-> Len(corpus.files),
                             total_chunks |-> Len(embedded_chunks)]
             /\ UNCHANGED failed_at
    /\ UNCHANGED <<collections, envVars, temp_collection, file_idx, all_chunks, embed_i,
                   attempt, embedded_chunks, upsert_i, uuid_count, existing_collections,
                   run_no, names_taken, call_log, wait_log,
                   prev_points, search>>
    /\ UNCHANGED queryVars
    /\ UNCHANGED libVars

\* ----------------------------------------------------- the environment
\* The wall clock passes a second boundary.  The clock is read by the first
\* statement of a run only, so the seconds that pass during a run are taken
\* after it.
Tick ==
    /\ ~Active
    /\ now < MaxTime
    /\ now' = now + 1
    /\ UNCHANGED <<storeVars, corpus, runVars, histVars, search>>
    /\ UNCHANGED queryVars
    /\ UNCHANGED libVars

\* ContentChunk.from_qdrant_point: text, metadata and chunk_type of the
\* payload; the run that wrote the point is kept to tell generations apart.
from_qdrant_point(point) == [run |-> point.id[1], file |-> point.file, index |-> point.index]

\* query_points(collection_name, limit = k): at most k points of the
\* collection the name resolves to.
QueryResults(name, k) ==
    LET pts == PointsOf(name)
    IN  { S \in SUBSET pts : Cardinality(S) = Min(k, Cardinality(pts)) }

\* What a reader saw: whether the name resolved, how many chunks came back
\* and from which runs' uploads, whether a rebuild was running, and whether
\* the generation published when that rebuild started held points.
Observation(status, chunks) ==
    [status |-> status,
     count |-> Cardinality(chunks),
     gens |-> { c.run : c \in chunks },
     during |-> Active,
     prev_nonempty |-> Active /\ prev_points.points # {}]

\* RetrievalService.retrieve_relevant_chunks against the published name,
\* from the query_points call on (the query embedding is already made).
Search ==
    /\ IF Resolves(QDRANT_COLLECTION)
       THEN \E res \in QueryResults(QDRANT_COLLECTION, RAG_TOP_K_CHUNKS) :
              search' = Observation("ok", { from_qdrant_point(p) : p \in res })
       ELSE search' = Observation("not_found", {})
    /\ UNCHANGED <<storeVars, envVars, runVars, histVars>>
    /\ UNCHANGED queryVars
    /\ UNCHANGED libVars

Next ==
    \/ StartRun
    \/ CreateCollection
    \/ ScanDocs
    \/ ProcessFile
    \/ EndFiles
    \/ EmbedCall
    \/ UpsertBatch
    \/ UploadDone
    \/ SwapList
    \/ SwapDelete
    \/ SwapAlias
    \/ Tick

\* Rebuilds alone.
Spec == Init /\ [][Next]_vars

\* Rebuilds with a reader searching the published name at any moment.
NextReader ==
    \/ StartRun
    \/ CreateCollection
    \/ ScanDocs
    \/ ProcessFile
    \/ EndFiles
    \/ EmbedCall
    \/ UpsertBatch
    \/ UploadDone
    \/ SwapList
    \/ SwapDelete
    \/ SwapAlias
    \/ Tick
    \/ Search

SpecReader == Init /\ [][NextReader]_vars

\* ------------------------------------------------- the indexing scripts
\* The points scripts/index_docs.py and scripts/index_textbook.py build: a
\* fresh uuid4 per chunk, outside any reindex_full run.
ScriptPoints ==
    { [OldPoint EXCEPT !.id = <<0, k>>, !.index = k] : k \in 1..MaxScriptPoints }

\* ensure_collection_exists: create the collection named
\* settings.QDRANT_COLLECTION unless get_collections lists it.  The store
\* refuses a collection whose name is an alias.
EnsureCollectionExists ==
    /\ QDRANT_COLLECTION \notin DOMAIN collections
    /\ \E fault \in BOOLEAN :
        IF fault \/ QDRANT_COLLECTION \in DOMAIN aliases
        THEN UNCHANGED collections
        ELSE collections' = (QDRANT_COLLECTION :> {}) @@ collections
    /\ UNCHANGED <<aliases, envVars, runVars, histVars, search, queryVars>>
    /\ UNCHANGED libVars

\* upsert_embeddings(chunks), and the upserts of index_textbook: one
\* client.upsert(collection_name = settings.QDRANT_COLLECTION, points), which
\* writes into the collection the name resolves to and raises when it
\* resolves to nothing.
UpsertEmbeddings ==
    /\ \E points \in (SUBSET ScriptPoints) \ {{}} :
        \E fault \in BOOLEAN :
            IF fault \/ ~Resolves(QDRANT_COLLECTION)
            THEN UNCHANGED collections
            ELSE collections' =
                    [c \in DOMAIN collections |->
                        IF c \in Resolve(QDRANT_COLLECTION)
                        THEN collections[c] \cup points ELSE collections[c]]
    /\ UNCHANGED <<aliases, envVars, runVars, histVars, search, queryVars>>
    /\ UNCHANGED libVars

\* Rebuilds and the indexing scripts against the same store.
NextScripts ==
    \/ StartRun
    \/ CreateCollection
    \/ ScanDocs
    \/ ProcessFile
    \/ EndFiles
    \/ EmbedCall
    \/ UpsertBatch
    \/ UploadDone
    \/ SwapList
    \/ SwapDelete
    \/ SwapAlias
    \/ Tick
    \/ EnsureCollectionExists
    \/ UpsertEmbeddings

SpecScripts == Init /\ [][NextScripts]_vars

\* ===================================================== the query endpoints
\* The requests that pass schema validation.  /query/global carries a
\* question only; /query/selection a question and a non-empty selected_text
\* (min_length = 1); /chat a mode, a question, and optionally selected_text
\* and doc_path.  question_ok is what validate_question will say of the
\* question under the configured MAX_QUESTION_TOKENS.
Requests ==
    { [endpoint |-> "global_query", mode |-> "whole-book", question_ok |-> TRUE,
       selected_text |-> FALSE, doc_path |-> FALSE],
      [endpoint |-> "selection_query", mode |-> "selection", question_ok |-> TRUE,
       selected_text |-> TRUE, doc_path |-> FALSE] }
    \cup
    { [endpoint |-> "chat", mode |-> m, question_ok |-> q, selected_text |-> s, doc_path |-> d] :
        m \in {"whole-book", "selection"}, q \in BOOLEAN, s \in BOOLEAN, d \in BOOLEAN }

\* The points a finished reindex_full has published from a corpus of n
\* one-chunk files, each embedded at the first call: ids are the run's
\* uuid4 draws in upload order.
NewPoints(n) ==
    { to_qdrant_point([file |-> f, index |-> 1, embedding |-> [set |-> TRUE, call |-> 1]],
                      <<1, f>>) : f \in 1..n }

\* The store as a query can find it: as before any reindex_full, or as a
\* completed reindex_full leaves it (a staging collection behind the alias).
QueryStores ==
    { [collections |-> c, aliases |-> NoAliases] : c \in InitialStores }
    \cup
    { [collections |-> (TempCollectionName(0) :> NewPoints(n)),
       aliases |-> (QDRANT_COLLECTION :> TempCollectionName(0))] : n \in 0..MaxFiles }

InitQuery ==
    /\ \E st \in QueryStores :
          /\ collections = st.collections
          /\ aliases = st.aliases
    /\ now = 0
    /\ corpus = NoDir
    /\ pc = "idle"
    /\ temp_collection = QDRANT_COLLECTION
    /\ file_idx = 1
    /\ all_chunks = <<>>
    /\ embed_i = 1
    /\ attempt = 1
    /\ embedded_chunks = <<>>
    /\ upsert_i = 1
    /\ uuid_count = 0
    /\ existing_collections = {}
    /\ response = NoResponse
    /\ run_no = 0
    /\ names_taken = {}
    /\ call_log = <<>>
    /\ wait_log = <<>>
    /\ failed_at = ""
    /\ prev_points = NoPrev
    /\ search = NoSearch
    /\ QueryIdle
    /\ LibIdle

reindexVars == <<storeVars, envVars, runVars, histVars, search>>

\* raise HTTPException(status_code = code): by the handler itself
\* (step = ""), or by its except branch for an exception raised at step.
HttpError(code, step) ==
    /\ req_pc' = "done"
    /\ http_response' = [status_code |-> code, answer |-> FALSE, citations |-> {},
                         retrieved_chunks |-> 0, raised |-> step]

\* The log of a request after a call of the provider's api, and after
\* asyncio.sleep(seconds).
Called(log, api, outcome) == Append(log, [op |-> "call", api |-> api, outcome |-> outcome])
Slept(log, seconds) == Append(log, [op |-> "sleep", seconds |-> seconds])

\* The handler the router dispatches the request to.
ReceiveRequest ==
    /\ req_pc \in {"idle", "done"}
    /\ \E r \in Requests :
          /\ request' = r
          /\ req_pc' = CASE r.endpoint = "global_query" -> "embed_text"
                         [] r.endpoint = "selection_query" -> "selection_prompt"
                         [] OTHER -> "chat_validate"
    /\ req_attempt' = 1
    /\ req_log' = <<>>
    /\ retrieved_chunks' = {}
    /\ context' = {}
    /\ citations' = {}
    /\ searched' = FALSE
    /\ http_response' = NoHttpResponse
    /\ UNCHANGED reindexVars
    /\ UNCHANGED libVars

\* ---------------------------------------------------------- global_query
\* retrieve_relevant_chunks, first half: embed_text(query), one call of the
\* provider inside _embed_texts_with_retry.
GlobalEmbedText ==
    /\ req_pc = "embed_text"
    /\ \E outcome \in RequestProviderOutcomes :
        IF outcome = "ok"
        THEN /\ req_pc' = "query_points"
             /\ req_attempt' = 1
             /\ req_log' = Called(req_log, "embeddings", outcome)
             /\ UNCHANGED http_response
        ELSE IF ShouldRetry(outcome, req_attempt)
        THEN /\ req_attempt' = req_attempt + 1
             /\ req_log' = Slept(Called(req_log, "embeddings", outcome), WaitTime(req_attempt))
             /\ UNCHANGED <<req_pc, http_response>>
        ELSE /\ HttpError(500, "embed_text")
             /\ req_log' = Called(req_log, "embeddings", outcome)
             /\ UNCHANGED req_attempt
    /\ UNCHANGED <<request, retrieved_chunks, context, citations, searched, reindexVars>>
    /\ UNCHANGED libVars

\* _extract_citations: one citation per (section_title, source_file).
ExtractCitations(chunks) == { <<c.index, c.file>> : c \in chunks }

\* _build_user_prompt: every retrieved chunk goes into the prompt.
BuildUserPrompt(chunks) == { [origin |-> "search", chunk |-> c] : c \in chunks }

\* retrieve_relevant_chunks, second half: query_points and the conversion
\* of the results; then `if not chunks: raise HTTPException(404)`.
GlobalQueryPoints ==
    /\ req_pc = "query_points"
    /\ \E fault \in BOOLEAN :
        IF fault \/ ~Resolves(QDRANT_COLLECTION)
        THEN /\ HttpError(500, "query_points")
             /\ UNCHANGED <<retrieved_chunks, context, searched>>
        ELSE \E res \in QueryResults(QDRANT_COLLECTION, RAG_TOP_K_CHUNKS) :
               LET chunks == { from_qdrant_point(p) : p \in res }
               IN  /\ retrieved_chunks' = chunks
                   /\ searched' = TRUE
                   /\ IF chunks = {}
                      THEN /\ HttpError(404, "")
                           /\ UNCHANGED context
                      ELSE /\ context' = BuildUserPrompt(chunks)
                           /\ req_pc' = "generate"
                           /\ UNCHANGED http_response
    /\ UNCHANGED <<request, req_log, req_attempt, citations, reindexVars>>
    /\ UNCHANGED libVars

\* ------------------------------------------------------- selection_query
\* generate_selection_answer up to the completion call:
\* _build_selection_user_prompt(question, selected_text).
SelectionPrompt ==
    /\ req_pc = "selection_prompt"
    /\ context' = { [origin |-> "selected_text"] }
    /\ req_pc' = "generate"
    /\ UNCHANGED <<request, req_log, req_attempt, retrieved_chunks, citations, searched,
                   http_response, reindexVars>>
    /\ UNCHANGED libVars

\* One call of chat.completions.create inside _generate_with_retry, and the
\* QueryResponse the endpoint returns when it succeeds: citations extracted
\* from the chunks by global_query, citations = [] and retrieved_chunks = 0
\* by selection_query.
GenerateCall ==
    /\ req_pc = "generate"
    /\ \E outcome \in RequestProviderOutcomes :
        IF outcome = "ok"
        THEN /\ req_pc' = "done"
             /\ http_response' =
                   IF request.endpoint = "global_query"
                   THEN [status_code |-> 200, answer |-> TRUE,
                         citations |-> ExtractCitations(retrieved_chunks),
                         retrieved_chunks |-> Cardinality(retrieved_chunks), raised |-> ""]
                   ELSE [status_code |-> 200, answer |-> TRUE, citations |-> {},
                         retrieved_chunks |-> 0, raised |-> ""]
             /\ req_log' = Called(req_log, "completions", outcome)
             /\ UNCHANGED req_attempt
        ELSE IF ShouldRetry(outcome, req_attempt)
        THEN /\ req_attempt' = req_attempt + 1
             /\ req_log' = Slept(Called(req_log, "completions", outcome), WaitTime(req_attempt))
             /\ UNCHANGED <<req_pc, http_response>>
        ELSE /\ HttpError(500, "generate")
             /\ req_log' = Called(req_log, "completions", outcome)
             /\ UNCHANGED req_attempt
    /\ UNCHANGED <<request, retrieved_chunks, context, citations, searched, reindexVars>>
    /\ UNCHANGED libVars

\* ----------------------------------------------------------------- /chat
\* validate_question, and the check that selection mode has a selected_text.
ChatValidate ==
    /\ req_pc = "chat_validate"
    /\ IF ~request.question_ok
       THEN HttpError(400, "")
       ELSE IF request.mode = "selection" /\ ~request.selected_text
       THEN HttpError(400, "")
       ELSE /\ req_pc' = "chat_session"
            /\ UNCHANGED http_response
    /\ UNCHANGED <<request, req_log, req_attempt, retrieved_chunks, context, citations,
                   searched,                   reindexVars>>
    /\ UNCHANGED libVars

\* get_or_create_session and get_conversation_history, either of which may
\* raise.
ChatSession ==
    /\ req_pc = "chat_session"
    /\ \E fault \in BOOLEAN :
        IF fault
        THEN HttpError(500, "session")
        ELSE /\ req_pc' = "rag_query"
             /\ UNCHANGED http_response
    /\ UNCHANGED <<request, req_log, req_attempt, retrieved_chunks, context, citations,
                   searched,                   reindexVars>>
    /\ UNCHANGED libVars

\* rag_query, mode "whole-book": generate_query_embedding, a single call of
\* the provider.
RagEmbedding ==
    /\ req_pc = "rag_query"
    /\ request.mode = "whole-book"
    /\ \E outcome \in ProviderOutcomes :
        IF outcome = "ok"
        THEN /\ req_pc' = "rag_search"
             /\ UNCHANGED http_response
        ELSE HttpError(500, "generate_query_embedding")
    /\ UNCHANGED <<request, req_log, req_attempt, retrieved_chunks, context, citations,
                   searched,                   reindexVars>>
    /\ UNCHANGED libVars

\* rag_query, mode "whole-book": the search of semantic_search, then
\* assemble_context_and_citations: the results that fit max_context_length
\* go into the context, each with a citation per (doc_path, heading).
RagSearch ==
    /\ req_pc = "rag_search"
    /\ \E fault \in BOOLEAN :
        IF fault \/ ~Resolves(QDRANT_COLLECTION)
        THEN /\ HttpError(500, "search")
             /\ UNCHANGED <<retrieved_chunks, context, citations, searched>>
        ELSE \E res \in QueryResults(QDRANT_COLLECTION, RAG_TOP_K_CHUNKS) :
               LET results == { from_qdrant_point(p) : p \in res }
               IN  \E fit \in SUBSET results :
                     /\ retrieved_chunks' = results
                     /\ searched' = TRUE
                     /\ context' = { [origin |-> "search", chunk |-> c] : c \in fit }
                     /\ citations' = { <<c.file, c.index>> : c \in fit }
                     /\ req_pc' = "rag_complete"
                     /\ UNCHANGED http_response
    /\ UNCHANGED <<request, req_log, req_attempt, reindexVars>>
    /\ UNCHANGED libVars

\* rag_query, mode "selection": the context is the selected text under a
\* line naming doc_path, and citations is a list of one Citation
\* (doc_path or "unknown", "Selected Text", the start of the selected text).
RagSelection ==
    /\ req_pc = "rag_query"
    /\ request.mode = "selection"
    /\ context' = { [origin |-> "doc_path"], [origin |-> "selected_text"] }
    /\ citations' = { <<IF request.doc_path THEN "doc_path" ELSE "unknown", "Selected Text">> }
    /\ req_pc' = "rag_complete"
    /\ UNCHANGED <<request, req_log, req_attempt, retrieved_chunks, searched, http_response,
                   reindexVars>>
    /\ UNCHANGED libVars

\* generate_chat_completion: a single call of chat.completions.create.
RagComplete ==
    /\ req_pc = "rag_complete"
    /\ \E outcome \in ProviderOutcomes :
        IF outcome = "ok"
        THEN /\ req_pc' = "chat_save"
             /\ UNCHANGED http_response
        ELSE HttpError(500, "generate_chat_completion")
    /\ UNCHANGED <<request, req_log, req_attempt, retrieved_chunks, context, citations,
                   searched,                   reindexVars>>
    /\ UNCHANGED libVars

\* save_messages and db.commit, then the ChatResponse with the answer and
\* the citations rag_query returned.
ChatSave ==
    /\ req_pc = "chat_save"
    /\ \E fault \in BOOLEAN :
        IF fault
        THEN HttpError(500, "save_messages")
        ELSE /\ req_pc' = "done"
             /\ http_response' = [status_code |-> 200, answer |-> TRUE,
                                  citations |-> citations,
                                  retrieved_chunks |-> Cardinality(retrieved_chunks),
                                  raised |-> ""]
    /\ UNCHANGED <<request, req_log, req_attempt, retrieved_chunks, context, citations,
                   searched,                   reindexVars>>
    /\ UNCHANGED libVars

NextQuery ==
    \/ ReceiveRequest
    \/ GlobalEmbedText
    \/ GlobalQueryPoints
    \/ SelectionPrompt
    \/ GenerateCall
    \/ ChatValidate
    \/ ChatSession
    \/ RagEmbedding
    \/ RagSearch
    \/ RagSelection
    \/ RagComplete
    \/ ChatSave

SpecQuery == InitQuery /\ [][NextQuery]_vars

\* ============================================ ContentChunker.chunk_sections
\* A section's content is the list of its paragraphs, as content.split("\n\n")
\* returns them.  A paragraph is prose or one fenced code block; tokens is
\* what len(encoding.encode(para)) returns for it.  The info string after
\* the opening fence is empty ("bare"), a word such as python ("word"), or
\* anything else, such as c++ or python title="x" ("other").  Paragraphs
\* are non-empty and a code block holds no blank line.
ParaTokens == 1..(max_tokens + 1)

Elements ==
    { [kind |-> "prose", info |-> "none", tokens |-> t] : t \in ParaTokens }
    \cup
    { [kind |-> "code", info |-> i, tokens |-> t] :
        i \in {"bare", "word", "other"}, t \in {1, max_tokens + 1} }

SectionContents == SeqsUpTo(Elements, MaxParas)

RECURSIVE SumTokens(_, _)
SumTokens(text, i) ==
    IF i > Len(text) THEN 0 ELSE text[i].tokens + SumTokens(text, i + 1)

\* len(encoding.encode(text)) of paragraphs joined by "\n\n": the tokens of
\* the paragraphs and one token for every separator between them.
TokenCount(text) ==
    IF text = <<>> THEN 0 ELSE SumTokens(text, 1) + SepTokens * (Len(text) - 1)

\* A variant that keeps the first paragraph of the text only.
CreateChunkFirstParagraph(text, chunk_index, chunk_type) ==
    [text |-> <<text[1]>>, chunk_index |-> chunk_index, chunk_type |-> chunk_type]

\* _create_chunk
CreateChunk(text, chunk_index, chunk_type) ==
    [text |-> text, chunk_index |-> chunk_index, chunk_type |-> chunk_type]

\* The for loop over paragraphs of _create_text_chunks and the flush after
\* it; budget is self.max_tokens.
RECURSIVE SplitParagraphs(_, _, _, _, _, _, _, _, _)
SplitParagraphs(budget, paragraphs, i, current_chunk_text, current_tokens, chunk_count, chunks, start_index, chunk_type) ==
    IF i > Len(paragraphs)
    THEN IF current_chunk_text # <<>>
         THEN Append(chunks, CreateChunk(current_chunk_text, start_index + chunk_count,
                                         chunk_type))
         ELSE chunks
    ELSE LET para == paragraphs[i]
             para_tokens == para.tokens
         IN  IF current_tokens + para_tokens <= budget
             THEN SplitParagraphs(budget, paragraphs, i + 1, Append(current_chunk_text, para),
                                  current_tokens + para_tokens, chunk_count, chunks,
                                  start_index, chunk_type)
             ELSE IF current_chunk_text # <<>>
             THEN SplitParagraphs(budget, paragraphs, i + 1, <<para>>, para_tokens, chunk_count + 1,
                                  Append(chunks, CreateChunk(current_chunk_text,
                                                             start_index + chunk_count,
                                                             chunk_type)),
                                  start_index, chunk_type)
             ELSE SplitParagraphs(budget, paragraphs, i + 1, <<para>>, para_tokens, chunk_count,
                                  chunks, start_index, chunk_type)

\* _create_text_chunks
CreateTextChunks(budget, content, start_index, chunk_type) ==
    IF content = <<>> THEN <<>>
    ELSE IF TokenCount(content) <= budget
    THEN << CreateChunk(content, start_index, chunk_type) >>
    ELSE SplitParagraphs(budget, content, 1, <<>>, 0, 0, <<>>, start_index, chunk_type)

\* The places of ``` in the content, in order.  CODE_BLOCK_PATTERN,
\* ```(\w*)\n(.*?)```, can start a match at a fence when the fence is
\* followed by word characters and a newline: at an opening fence whose
\* info string is empty or a word, and at a closing fence that is not the
\* end of the content.
RECURSIVE Fences(_, _)
Fences(content, i) ==
    IF i > Len(content) THEN <<>>
    ELSE IF content[i].kind = "code"
    THEN << [para |-> i, side |-> "open", startable |-> content[i].info \in {"bare", "word"}],
            [para |-> i, side |-> "close", startable |-> i < Len(content)] >>
         \o Fences(content, i + 1)
    ELSE Fences(content, i + 1)

\* CODE_BLOCK_PATTERN.finditer: a match runs from a fence where it can
\* start to the next fence, and the scan goes on after that one.
RECURSIVE FindCodeBlocks(_, _)
FindCodeBlocks(fences, i) ==
    IF i >= Len(fences) THEN <<>>
    ELSE IF fences[i].startable
    THEN << [from |-> fences[i], to |-> fences[i + 1]] >> \o FindCodeBlocks(fences, i + 2)
    ELSE FindCodeBlocks(fences, i + 1)

\* extract_code_blocks: language and code of every match.
extract_code_blocks(content) ==
    LET matches == FindCodeBlocks(Fences(content, 1), 1)
    IN  [k \in 1..Len(matches) |->
            [language |-> IF matches[k].from.side = "open"
                             /\ content[matches[k].from.para].info = "word"
                          THEN "word" ELSE "text",
             code |-> matches[k]]]

has_code_blocks(content) == FindCodeBlocks(Fences(content, 1), 1) # <<>>

\* A variant of the index of a code chunk that starts again from 0.
CodeChunkIndexFromZero(start_index, i) == i

\* metadata["chunk_index"] of the i-th code chunk (i from 0): start_index + i
CodeChunkIndex(start_index, i) == start_index + i

\* _create_code_chunks
CreateCodeChunks(content, start_index) ==
    LET code_blocks == extract_code_blocks(content)
    IN  [k \in 1..Len(code_blocks) |->
            [text |-> code_blocks[k].code,
             chunk_index |-> CodeChunkIndex(start_index, k - 1),
             chunk_type |-> "code_only",
             language |-> code_blocks[k].language]]

\* What all_chunks keeps of a chunk here: its index and its type.
IndexAndType(chunks) ==
    [k \in 1..Len(chunks) |->
        [chunk_index |-> chunks[k].chunk_index, chunk_type |-> chunks[k].chunk_type]]

chunkerFrame == <<storeVars, envVars, runVars, histVars, search, queryVars, parser, limiter, translator,
     assembly, splitter>>

\* chunk_sections is called: all_chunks = [], chunk_index = 0.
ChunkSectionsCall ==
    /\ chunker.pc \in {"idle", "returned"}
    /\ chunker' = [NoChunker EXCEPT !.pc = "loop"]
    /\ UNCHANGED chunkerFrame

\* One pass of the for loop over sections, up to the text chunks: the
\* section's text chunks are made, appended, and counted in chunk_index.
SectionTextChunks ==
    /\ chunker.pc = "loop"
    /\ chunker.sections < MaxSections
    /\ \E content \in SectionContents :
        LET text_chunks == CreateTextChunks(max_tokens, content, chunker.chunk_index, "text_with_code")
        IN  chunker' = [chunker EXCEPT
                          !.section = content,
                          !.text_chunks = text_chunks,
                          !.all_chunks = @ \o IndexAndType(text_chunks),
                          !.chunk_index = @ + Len(text_chunks),
                          !.pc = IF has_code_blocks(content) THEN "code" ELSE "end"]
    /\ UNCHANGED chunkerFrame

\* The rest of the pass for a section with code: the code_only chunks.
SectionCodeChunks ==
    /\ chunker.pc = "code"
    /\ LET code_chunks == CreateCodeChunks(chunker.section, chunker.chunk_index)
       IN  chunker' = [chunker EXCEPT
                          !.code_chunks = code_chunks,
                          !.all_chunks = @ \o IndexAndType(code_chunks),
                          !.chunk_index = @ + Len(code_chunks),
                          !.pc = "end"]
    /\ UNCHANGED chunkerFrame

\* The pass is over; its section and chunk lists are not read again.
SectionDone ==
    /\ chunker.pc = "end"
    /\ chunker' = [chunker EXCEPT
                      !.pc = "loop",
                      !.sections = @ + 1,
                      !.section = <<>>,
                      !.text_chunks = <<>>,
                      !.code_chunks = <<>>]
    /\ UNCHANGED chunkerFrame

\* The sections are exhausted: return all_chunks.
ChunkSectionsReturn ==
    /\ chunker.pc = "loop"
    /\ chunker' = [chunker EXCEPT !.pc = "returned"]
    /\ UNCHANGED chunkerFrame

\* Nothing runs but the component under study.
Quiet ==
    /\ collections = NoCollections
    /\ aliases = NoAliases
    /\ now = 0
    /\ corpus = NoDir
    /\ pc = "idle"
    /\ temp_collection = QDRANT_COLLECTION
    /\ file_idx = 1
    /\ all_chunks = <<>>
    /\ embed_i = 1
    /\ attempt = 1
    /\ embedded_chunks = <<>>
    /\ upsert_i = 1
    /\ uuid_count = 0
    /\ existing_collections = {}
    /\ response = NoResponse
    /\ run_no = 0
    /\ names_taken = {}
    /\ call_log = <<>>
    /\ wait_log = <<>>
    /\ failed_at = ""
    /\ prev_points = NoPrev
    /\ search = NoSearch
    /\ QueryIdle

InitChunker ==
    /\ Quiet
    /\ LibIdle

NextChunker ==
    \/ ChunkSectionsCall
    \/ SectionTextChunks
    \/ SectionCodeChunks
    \/ SectionDone
    \/ ChunkSectionsReturn

SpecChunker == InitChunker /\ [][NextChunker]_vars

\* ------------------------------------- a section of three paragraphs
\* The sections of three prose paragraphs, of any sizes, whose body has
\* ScenarioBodyTokens tokens.
ScenarioSections ==
    { content \in [1..3 -> { [kind |-> "prose", info |-> "none", tokens |-> t] :
                               t \in 1..ScenarioBodyTokens }] :
        TokenCount(content) = ScenarioBodyTokens }

\* ContentChunker(max_tokens = ScenarioMaxTokens)._create_text_chunks(section, 0)
ChunkScenarioSection ==
    /\ \E content \in ScenarioSections :
          chunker' = [NoChunker EXCEPT
                         !.pc = "scenario",
                         !.section = content,
                         !.text_chunks = CreateTextChunks(ScenarioMaxTokens, content, 0,
                                                          "text_with_code")]
    /\ UNCHANGED chunkerFrame

SpecScenario == InitChunker /\ [][ChunkScenarioSection]_vars

\* ======================================== MarkdownParser._extract_sections
\* HEADING_PATTERN, ^(#{1,6})\s+(.+)$: a heading has 1 to 6 # characters.
HeadingLevels == 1..6

\* The condition of the while loop: the heading on top of the stack is at
\* the same or a deeper level than the current one.  First a variant that
\* removes deeper headings only.
PopsDeeperOnly(top_level, level) == top_level > level

PopsTop(top_level, level) == top_level >= level

\* while hierarchy_stack and hierarchy_stack[-1][0] >= level: pop()
RECURSIVE PopStack(_, _)
PopStack(hierarchy_stack, level) ==
    IF hierarchy_stack # <<>> /\ PopsTop(hierarchy_stack[Len(hierarchy_stack)].level, level)
    THEN PopStack(SubSeq(hierarchy_stack, 1, Len(hierarchy_stack) - 1), level)
    ELSE hierarchy_stack

\* [h for _, h in hierarchy_stack[:-1]]
HeadingHierarchy(hierarchy_stack) ==
    [k \in 1..(Len(hierarchy_stack) - 1) |-> hierarchy_stack[k].heading]

parserFrame == <<storeVars, envVars, runVars, histVars, search, queryVars, chunker, limiter, translator,
     assembly, splitter>>

\* _extract_sections is called.
ExtractSectionsCall ==
    /\ parser.pc \in {"idle", "returned"}
    /\ parser' = [NoParser EXCEPT !.pc = "loop"]
    /\ UNCHANGED parserFrame

\* One pass of the loop over heading_matches, for a heading of any level:
\* the stack is updated and the section is appended.  A heading is named by
\* its place in heading_matches.
ExtractSection ==
    /\ parser.pc = "loop"
    /\ Len(parser.heading_matches) < MaxHeadings
    /\ \E level \in HeadingLevels :
        LET i == Len(parser.heading_matches) + 1
            hierarchy_stack == Append(PopStack(parser.hierarchy_stack, level),
                                      [level |-> level, heading |-> i])
        IN  parser' = [parser EXCEPT
                         !.heading_matches = Append(@, level),
                         !.hierarchy_stack = hierarchy_stack,
                         !.sections = Append(@, [heading |-> i, level |-> level,
                                                 heading_hierarchy |->
                                                     HeadingHierarchy(hierarchy_stack)])]
    /\ UNCHANGED parserFrame

\* return sections
ExtractSectionsReturn ==
    /\ parser.pc = "loop"
    /\ parser' = [parser EXCEPT !.pc = "returned"]
    /\ UNCHANGED parserFrame

InitParser ==
    /\ Quiet
    /\ LibIdle

NextParser ==
    \/ ExtractSectionsCall
    \/ ExtractSection
    \/ ExtractSectionsReturn

SpecParser == InitParser /\ [][NextParser]_vars

\* ================================================ RateLimiter.check_rate_limit
\* A variant of the window test that keeps a timestamp exactly
\* window_seconds old.
InWindowInclusive(ts, current_time) == current_time - ts <= window_seconds

\* current_time - ts < self.window_seconds
InWindow(ts, current_time) == current_time - ts < window_seconds

limiterFrame == <<storeVars, envVars, runVars, histVars, search, queryVars, chunker, parser, translator,
     assembly, splitter>>

\* A variant that records the request before the test of the limit.
CheckRateLimitRecordsFirst ==
    /\ \E client \in Hosts \cup {NoClient} :
        LET client_ip == GetClientIp(client)
            current_time == limiter.time
            kept == SelectSeq(limiter.request_timestamps[client_ip],
                              LAMBDA ts : InWindow(ts, current_time))
            refused == Len(kept) >= limit
        IN  limiter' = [limiter EXCEPT
                          !.request_timestamps[client_ip] = Append(kept, current_time),
                          !.accepted[client_ip] =
                              IF refused THEN @ ELSE Append(@, current_time),
                          !.last = [client_ip |-> client_ip,
                                    status_code |-> IF refused THEN 429 ELSE 200]]
    /\ UNCHANGED limiterFrame

\* check_rate_limit(request): the timestamps of the client's IP that are
\* out of the window are removed; with limit or more left the request is
\* refused with HTTP 429, otherwise its time is appended.
CheckRateLimit ==
    /\ \E client \in Hosts \cup {NoClient} :
        LET client_ip == GetClientIp(client)
            current_time == limiter.time
            kept == SelectSeq(limiter.request_timestamps[client_ip],
                              LAMBDA ts : InWindow(ts, current_time))
            refused == Len(kept) >= limit
        IN  limiter' = [limiter EXCEPT
                          !.request_timestamps[client_ip] =
                              IF refused THEN kept ELSE Append(kept, current_time),
                          !.accepted[client_ip] =
                              IF refused THEN @ ELSE Append(@, current_time),
                          !.last = [client_ip |-> client_ip,
                                    status_code |-> IF refused THEN 429 ELSE 200]]
    /\ UNCHANGED limiterFrame

\* time.time() moves on.
ClockAdvance ==
    /\ limiter.time < MaxClock
    /\ limiter' = [limiter EXCEPT !.time = @ + 1, !.last = NoDecision]
    /\ UNCHANGED limiterFrame

InitLimiter ==
    /\ Quiet
    /\ LibIdle

NextLimiter ==
    \/ CheckRateLimit
    \/ ClockAdvance

SpecLimiter == InitLimiter /\ [][NextLimiter]_vars

\* ================================================ TranslationService.translate
Texts == {"Test", "Hello"}
Languages == {"english", "spanish"}

\* What a call of _call_openai and the reading of its response can do:
\* return a response with content, or raise RateLimitError,
\* APIConnectionError, another OpenAIError, or anything else (such as the
\* IndexError of a response without choices).
TranslateOutcomes == {"ok", "RateLimitError", "APIConnectionError", "OpenAIError", "Exception"}

\* except (RateLimitError, APIConnectionError)
Transient == {"RateLimitError", "APIConnectionError"}

\* A variant of the delay that does not grow.
DelayFlat(try) == base_delay

\* delay = self.base_delay * (2 ** attempt)
Delay(try) == base_delay * (2 ^ try)

translatorFrame == <<storeVars, envVars, runVars, histVars, search, queryVars, chunker, parser,
                     limiter, assembly, splitter>>

\* translate(text, source_language, target_language) is called.
TranslateCall ==
    /\ translator.pc \in {"idle", "returned", "raised"}
    /\ \E text \in Texts, source_language \in Languages, target_language \in Languages :
          translator' = [NoTranslator EXCEPT
                            !.pc = "call",
                            !.text = text,
                            !.source_language = source_language,
                            !.target_language = target_language]
    /\ UNCHANGED translatorFrame

\* One pass of the for loop: the call of _call_openai, then the return of
\* the result, or the sleep and the next pass, or the raise.  The content
\* of a response is named by the call it answers.
TranslateAttempt ==
    /\ translator.pc = "call"
    /\ translator.attempt < translate_max_retries
    /\ \E outcome \in TranslateOutcomes :
        LET try == translator.attempt
            called == Append(translator.log, [op |-> "call", outcome |-> outcome])
        IN  IF outcome = "ok"
            THEN translator' = [translator EXCEPT
                    !.log = called,
                    !.pc = "returned",
                    !.result = [original_text |-> translator.text,
                                translated_text |-> [content_of_call |-> try + 1],
                                source_language |-> translator.source_language,
                                target_language |-> translator.target_language]]
            ELSE IF outcome \in Transient /\ try < translate_max_retries - 1
            THEN translator' = [translator EXCEPT
                    !.log = Append(called, [op |-> "sleep", delay |-> Delay(try)]),
                    !.attempt = try + 1]
            ELSE translator' = [translator EXCEPT
                    !.log = called,
                    !.pc = "raised",
                    !.raised = "TranslationServiceError"]
    /\ UNCHANGED translatorFrame

InitTranslator ==
    /\ Quiet
    /\ LibIdle

NextTranslator ==
    \/ TranslateCall
    \/ TranslateAttempt

SpecTranslator == InitTranslator /\ [][NextTranslator]_vars

\* =========================================== context assembly and citations
\* Texts are lists of pieces; "::" is the piece that source_key is built
\* with, and a path or a heading can hold it too.
DocPaths == { <<"a">>, <<"a", "::", "b">> }
Headings == { <<"c">>, <<"b", "::", "c">> }

\* len(chunk_part) of a retrieved chunk: short, or as long as the budget.
PartChars == {1, 2, max_context_length}

\* The chunks a search returns, in the order of their scores.
RetrievedChunks ==
    [doc_path : DocPaths, heading : Headings, chunk_length : PartChars]

SearchResults == SeqsUpTo(RetrievedChunks, MaxResults)

RECURSIVE SumLengths(_, _)
SumLengths(parts, i) ==
    IF i > Len(parts) THEN 0 ELSE parts[i].chunk_length + SumLengths(parts, i + 1)

\* len("\n".join(context_parts))
JoinedLength(parts) ==
    IF parts = <<>> THEN 0 ELSE SumLengths(parts, 1) + JoinChars * (Len(parts) - 1)

\* source_key = f"{doc_path}::{heading}"
SourceKey(doc_path, heading) == doc_path \o <<"::">> \o heading

\* The for loop of assemble_context_and_citations; cited is its list
\* citations.
RECURSIVE AssembleLoop(_, _, _, _, _, _, _)
AssembleLoop(budget, search_results, idx, context_parts, current_length, cited, seen_sources) ==
    IF idx > Len(search_results)
    THEN [context_parts |-> context_parts, citations |-> cited]
    ELSE LET point == search_results[idx]
             source_key == SourceKey(point.doc_path, point.heading)
         IN  IF current_length + point.chunk_length > budget
             THEN [context_parts |-> context_parts, citations |-> cited]
             ELSE AssembleLoop(budget, search_results, idx + 1,
                               Append(context_parts, point),
                               current_length + point.chunk_length,
                               IF source_key \notin seen_sources
                               THEN Append(cited, <<point.doc_path, point.heading>>)
                               ELSE cited,
                               seen_sources \cup {source_key})

\* The for loop of _extract_citations: citation_key = (section_title,
\* source_file).
RECURSIVE ExtractLoop(_, _, _, _)
ExtractLoop(chunks, i, cited, seen_sections) ==
    IF i > Len(chunks) THEN cited
    ELSE LET citation_key == <<chunks[i].heading, chunks[i].doc_path>>
         IN  ExtractLoop(chunks, i + 1,
                         IF citation_key \notin seen_sections
                         THEN Append(cited, <<chunks[i].doc_path, chunks[i].heading>>)
                         ELSE cited,
                         seen_sections \cup {citation_key})

assemblyFrame == <<storeVars, envVars, runVars, histVars, search, queryVars, chunker, parser,
                   limiter, translator, splitter>>

\* rag_query: assemble_context_and_citations(search_results)
AssembleContextAndCitations ==
    /\ assembly = NoAssembly
    /\ \E search_results \in SearchResults :
        LET loop == AssembleLoop(max_context_length, search_results, 1, <<>>, 0, <<>>, {})
        IN  assembly' = [op |-> "assemble_context_and_citations",
                         search_results |-> search_results,
                         context_parts |-> loop.context_parts,
                         context_length |-> JoinedLength(loop.context_parts),
                         citations |-> loop.citations]
    /\ UNCHANGED assemblyFrame

\* generate_answer: _build_user_prompt(question, retrieved_chunks), which
\* takes every chunk, and _extract_citations(retrieved_chunks).
GenerateAnswerPrompt ==
    /\ assembly = NoAssembly
    /\ \E retrieved \in SearchResults :
          assembly' = [op |-> "generate_answer",
                       search_results |-> retrieved,
                       context_parts |-> retrieved,
                       context_length |-> JoinedLength(retrieved),
                       citations |-> ExtractLoop(retrieved, 1, <<>>, {})]
    /\ UNCHANGED assemblyFrame

InitAssembly ==
    /\ Quiet
    /\ LibIdle

NextAssembly ==
    \/ AssembleContextAndCitations
    \/ GenerateAnswerPrompt

SpecAssembly == InitAssembly /\ [][NextAssembly]_vars



\* ================================================================ claims
Published == QDRANT_COLLECTION

Done == pc = "done"

\* The run got past index_documents' loop over the files.
PastFiles ==
    \/ pc \in {"embed", "upload", "swap_list", "swap_delete", "swap_alias"}
    \/ Done /\ failed_at \in {"", "embed_chunks", "upsert", "get_collections",
                              "delete_collection", "update_collection_aliases"}

\* upsert_chunks_to_qdrant has returned.
PastUpload ==
    \/ pc \in {"swap_list", "swap_delete", "swap_alias"}
    \/ Done /\ failed_at \in {"", "get_collections", "delete_collection",
                              "update_collection_aliases"}

GoodFiles == { f \in 1..Len(corpus.files) :
                 ~corpus.files[f].raises /\ corpus.files[f].chunks > 0 }
BadFiles == { f \in 1..Len(corpus.files) : corpus.files[f].raises }

StagingPoints == IF temp_collection \in DOMAIN collections
                 THEN collections[temp_collection] ELSE {}

PointsFor(file, index) == { p \in StagingPoints : p.file = file /\ p.index = index }

\* C1: a search of the published name issued while reindex_full runs, the
\* generation published at the start of the run being non-empty, resolves,
\* returns at least one chunk, and returns chunks of one generation only.
C1_SearchDuringReindex ==
    (search.status # "none" /\ search.prev_nonempty) =>
        /\ search.status = "ok"
        /\ search.count > 0
        /\ Cardinality(search.gens) <= 1

\* C2: when the alias update of a run fails, the generation published
\* before the run is still what the published name resolves to, and the
\* run's staging collection still exists.
C2_FailedPublishKeepsPrevious ==
    (Done /\ failed_at = "update_collection_aliases") =>
        /\ prev_points.resolved =>
              (Resolves(Published) /\ PointsOf(Published) = prev_points.points)
        /\ temp_collection \in DOMAIN collections

\* C3: after a run, whatever its outcome, a published name that resolved
\* to a non-empty generation before the run resolves to a non-empty one.
C3_RebuildKeepsIndexNonEmpty ==
    (Done /\ prev_points.points # {}) => PointsOf(Published) # {}

\* C4: a run in which no document is processed successfully (empty
\* directory, or every file skipped) returns failed with total_chunks = 0.
C4_ZeroDocumentsFails ==
    (Done /\ corpus.exists /\ GoodFiles = {}) =>
        /\ response.status = "failed"
        /\ response.total_chunks = 0

QueryDone == req_pc = "done"

\* C5: in selection mode no vector search is performed, nothing that came
\* from a search is in what the completion prompt is built from, the
\* selected text is in it, and the response that carries the answer has no
\* citations.
C5_SelectionOnlyCallerText ==
    (request.mode = "selection") =>
        /\ ~searched
        /\ retrieved_chunks = {}
        /\ \A item \in context : item.origin # "search"
        /\ (req_pc \in {"generate", "rag_complete"}) =>
              [origin |-> "selected_text"] \in context
        /\ (QueryDone /\ http_response.status_code = 200) =>
              http_response.citations = {}

\* C6: a corpus-mode request whose search returned no chunks, and in which
\* no call raised afterwards, ends with a normal answer response and not
\* with an error.
C6_EmptyRetrievalAnswered ==
    (QueryDone /\ request.mode = "whole-book" /\ searched /\ retrieved_chunks = {}
        /\ http_response.raised = "") =>
        /\ http_response.status_code = 200
        /\ http_response.answer

\* C7: with a bad document and at least one good one in the corpus, the
\* bad document does not end the run: the chunks collected are exactly the
\* good documents' chunks, in order, index_documents does not fail, and once
\* the upload has returned every one of them is in the staging collection
\* with its embedding; a run with no provider or store failure completes.
C7_BadDocumentSkipped ==
    (BadFiles # {} /\ GoodFiles # {}) =>
        /\ failed_at # "index_documents"
        /\ PastFiles =>
              /\ Len(all_chunks) = Cardinality(GoodFiles)
              /\ \A f \in GoodFiles : \E k \in 1..Len(all_chunks) : all_chunks[k].file = f
              /\ \A k \in 1..Len(all_chunks) : all_chunks[k].file \in GoodFiles
        /\ PastUpload =>
              \A f \in GoodFiles : Cardinality(PointsFor(f, 1)) = 1
        /\ (Done /\ failed_at = "") =>
              /\ response.status = "completed"
              /\ response.total_chunks = Cardinality(GoodFiles)

C7_Witness ==
    /\ Done
    /\ BadFiles # {} /\ GoodFiles # {}
    /\ response.status = "completed"
    /\ \A f \in GoodFiles : Cardinality(PointsFor(f, 1)) = 1

\* A batch whose calls all failed with a retryable error until the retries
\* ran out.
Exhausted(b) ==
    /\ Len(call_log[b]) = max_retries
    /\ \A i \in 1..max_retries : call_log[b][i] \in {"rate_limit", "api_error"}

BatchOf(b) == BatchRange((b - 1) * EmbedBatchSize + 1, EmbedBatchSize, Len(all_chunks))

\* C8: when one embedding batch fails after its retries, the chunks of the
\* other batches are still embedded and uploaded.
C8_BatchFailureIsolated ==
    Done =>
        \A b \in DOMAIN call_log :
            Exhausted(b) =>
                \A k \in (1..Len(all_chunks)) \ BatchOf(b) :
                    /\ all_chunks[k].embedding.set
                    /\ PointsFor(all_chunks[k].file, all_chunks[k].index) # {}

RetriedTwice(b) == call_log[b] = <<"rate_limit", "rate_limit", "ok">>

\* C9: for a batch whose first two calls failed with a rate-limit error and
\* whose third call succeeded, every chunk of the batch carries the vector
\* of the third call and is in the list embed_chunks builds exactly once,
\* and once the upload has returned the staging collection holds exactly
\* one point for each chunk of the batch, with that vector.
C9_RetryThenSuccess ==
    \A b \in DOMAIN call_log :
        RetriedTwice(b) =>
            \A k \in BatchOf(b) :
                /\ all_chunks[k].embedding = [set |-> TRUE, call |-> max_retries]
                /\ Cardinality({ j \in 1..Len(embedded_chunks) :
                                   embedded_chunks[j] = all_chunks[k] }) = 1
                /\ PastUpload =>
                      /\ Cardinality(PointsFor(all_chunks[k].file, all_chunks[k].index)) = 1
                      /\ \A p \in PointsFor(all_chunks[k].file, all_chunks[k].index) :
                            p.vector = max_retries

C9_Witness ==
    /\ Done
    /\ response.status = "completed"
    /\ \E b \in DOMAIN call_log :
          /\ RetriedTwice(b)
          /\ \A k \in BatchOf(b) :
                Cardinality(PointsFor(all_chunks[k].file, all_chunks[k].index)) = 1

\* C10: a run never chooses the staging name of an earlier run whose
\* collection exists, so the name a run is about to create is never the
\* name of a collection another run created.
C10_UniqueStagingNames ==
    (pc = "create") =>
        \A n \in names_taken : n = temp_collection => n \notin DOMAIN collections

\* The collections no reader can reach: neither under the published name
\* nor behind its alias.
UnpublishedCollections ==
    { c \in DOMAIN collections : c \notin Resolve(QDRANT_COLLECTION) }

\* C11: in every state of any sequence of runs, a published name that
\* resolved when the current run started still resolves to a generation,
\* and at most one unpublished staging collection exists.
C11_OnePublishedOneBuilding ==
    /\ (run_no > 0 /\ prev_points.resolved) => Resolves(Published)
    /\ Cardinality(UnpublishedCollections) <= 1

\* C12: no step adds or changes points in the collection readers reach
\* through the published name: while a collection is published and stays
\* in the store, its points do not change.
C12_PublishedNeverWrittenInPlace ==
    [][\A c \in Resolve(QDRANT_COLLECTION) :
          c \in DOMAIN collections' => collections'[c] = collections[c]]_vars

\* C13: a run that follows a completed run on the same corpus does not
\* fail on its own staging name, and when it completes the published name
\* resolves to its staging collection, which holds as many points as the
\* generation the first run published.
C13_RepeatCompletes ==
    (Done /\ run_no >= 2 /\ prev_points.completed) =>
        /\ ~(/\ failed_at = "create_collection"
             /\ temp_collection \in names_taken
             /\ temp_collection \in DOMAIN collections)
        /\ (response.status = "completed") =>
              /\ Resolve(Published) = {temp_collection}
              /\ Cardinality(PointsOf(Published)) = Cardinality(prev_points.points)

\* chunk_sections has made all the chunks of the section it is at.
SectionChunked == chunker.pc = "end"

\* C14: every chunk that is not code_only has at most max_tokens tokens,
\* unless it is a single paragraph that alone has more than max_tokens.
C14_TextChunksWithinMaxTokens ==
    \A k \in DOMAIN chunker.text_chunks :
        LET text == chunker.text_chunks[k].text
        IN  \/ TokenCount(text) <= max_tokens
            \/ Len(text) = 1 /\ text[1].tokens > max_tokens

\* The fenced code blocks of a section's content.
CodeBlocksIn(content) == { i \in DOMAIN content : content[i].kind = "code" }

RECURSIVE JoinTexts(_, _)
JoinTexts(chunks, k) ==
    IF k > Len(chunks) THEN <<>> ELSE chunks[k].text \o JoinTexts(chunks, k + 1)

\* C15: for a section with N >= 1 fenced code blocks chunk_sections emits
\* exactly N code_only chunks and at least one text chunk, and the text
\* chunks together hold the whole section body, code included.
C15_CodeSectionsFullyChunked ==
    (SectionChunked /\ CodeBlocksIn(chunker.section) # {}) =>
        /\ Len(chunker.code_chunks) = Cardinality(CodeBlocksIn(chunker.section))
        /\ \A k \in DOMAIN chunker.code_chunks :
              chunker.code_chunks[k].chunk_type = "code_only"
        /\ Len(chunker.text_chunks) >= 1
        /\ JoinTexts(chunker.text_chunks, 1) = chunker.section

\* C16: within one document the chunk_index values are 0, 1, 2, ... in the
\* order the chunks are emitted, without gap or repeat, across the text and
\* code chunks of all sections.
C16_ChunkIndexSequential ==
    \A k \in DOMAIN chunker.all_chunks : chunker.all_chunks[k].chunk_index = k - 1

C16_Witness ==
    /\ chunker.pc = "returned"
    /\ chunker.sections >= 2
    /\ \E j, k, l \in DOMAIN chunker.all_chunks :
          /\ j < k /\ k < l
          /\ chunker.all_chunks[j].chunk_type = "text_with_code"
          /\ chunker.all_chunks[k].chunk_type = "code_only"
          /\ chunker.all_chunks[l].chunk_type = "text_with_code"

\* The level of the heading at place h of the document.
LevelOf(h) == parser.heading_matches[h]

\* C17: for every section, whatever the sequence of heading levels, the
\* headings in heading_hierarchy are of strictly increasing level, all of a
\* level lower than the section's own, in document order, and the section's
\* own heading is not among them.
C17_HierarchyStrictlyNested ==
    \A n \in DOMAIN parser.sections :
        LET section == parser.sections[n]
            hh == section.heading_hierarchy
        IN  /\ \A k \in DOMAIN hh :
                  /\ LevelOf(hh[k]) < section.level
                  /\ hh[k] # section.heading
                  /\ hh[k] < section.heading
            /\ \A j, k \in DOMAIN hh :
                  j < k => /\ LevelOf(hh[j]) < LevelOf(hh[k])
                           /\ hh[j] < hh[k]

\* A returned document in which a level is skipped, a heading follows a
\* deeper one, and a later section has two headings above it.
C17_Witness ==
    /\ parser.pc = "returned"
    /\ \E h \in DOMAIN parser.heading_matches :
          h > 1 /\ LevelOf(h) > LevelOf(h - 1) + 1
    /\ \E h \in DOMAIN parser.heading_matches :
          h > 1 /\ LevelOf(h) <= LevelOf(h - 1)
    /\ \E n \in DOMAIN parser.sections :
          /\ Len(parser.sections[n].heading_hierarchy) >= 2
          /\ \E h \in 1..(n - 1) : LevelOf(h) >= LevelOf(n)

\* The requests in a list of accepted times that are newer than
\* current_time - window_seconds.
NewerThanWindow(times, current_time) ==
    { k \in DOMAIN times : times[k] > current_time - window_seconds }

\* The accepted requests of the IP of the latest decision that came before
\* that decision.
AcceptedBefore ==
    LET times == limiter.accepted[limiter.last.client_ip]
    IN  IF limiter.last.status_code = 200 THEN SubSeq(times, 1, Len(times) - 1) ELSE times

\* C18: a request from an IP at time t is accepted exactly when fewer than
\* limit of the requests of that IP accepted before it are newer than
\* t - window_seconds, and is refused with HTTP 429 otherwise; so requests
\* of other IPs do not count, and a refused IP is accepted again once all
\* its accepted requests have left the window.
C18_SlidingWindowPerIp ==
    (limiter.last # NoDecision) =>
        LET recent == NewerThanWindow(AcceptedBefore, limiter.time)
        IN  /\ limiter.last.status_code \in {200, 429}
            /\ (limiter.last.status_code = 200) <=> (Cardinality(recent) < limit)
            /\ (recent = {}) => limiter.last.status_code = 200

\* An IP that was at its limit is accepted, all its accepted requests
\* having left the window, while the other IP is at its limit.
C18_Witness ==
    /\ limiter.last.status_code = 200
    /\ Len(AcceptedBefore) >= limit
    /\ NewerThanWindow(AcceptedBefore, limiter.time) = {}
    /\ \E ip \in ClientIps \ {limiter.last.client_ip} :
          Cardinality(NewerThanWindow(limiter.accepted[ip], limiter.time)) >= limit

\* The places of the provider calls in the log of translate.
ProviderCalls == { i \in DOMAIN translator.log : translator.log[i].op = "call" }

TranslateOver == translator.pc \in {"returned", "raised"}

C20_EmbedRetryBackoff ==
    \A b \in DOMAIN call_log :
        /\ Len(call_log[b]) <= max_retries
        /\ Len(wait_log[b]) <= Len(call_log[b])
        /\ \A i \in DOMAIN wait_log[b] :
              /\ wait_log[b][i] = 2 ^ i
              /\ call_log[b][i] \in {"rate_limit", "api_error"}
        /\ \A i \in 2..Len(call_log[b]) : i - 1 \in DOMAIN wait_log[b]
        /\ Exhausted(b) =>
              /\ pc = "done"
              /\ failed_at = "embed_chunks"
              /\ response.status = "failed"
              /\ Len(wait_log[b]) = max_retries - 1
              /\ \A later \in DOMAIN call_log : later > b => call_log[later] = <<>>
              /\ \A k \in BatchOf(b) : ~all_chunks[k].embedding.set

\* The second batch of a run has failed max_retries times, after waits of 2
\* and 4 seconds, the first batch having been embedded.
C20_Witness ==
    /\ \E b \in DOMAIN call_log :
          /\ b > 1
          /\ Exhausted(b)
          /\ wait_log[b] = <<2, 4>>
          /\ \A k \in BatchOf(1) : all_chunks[k].embedding.set

\* C21: a provider error that is neither a rate-limit nor a transient error
\* (an authentication or invalid-request error), raised by an embedding or
\* generation call of a request, goes to the caller at once: neither a
\* sleep nor another provider call follows it.
C21_NonRetryablePropagates ==
    \A i \in DOMAIN req_log :
        (req_log[i].op = "call" /\ req_log[i].outcome = "auth_error") =>
            /\ i = Len(req_log)
            /\ req_pc = "done"

\* C22: within a run the previously published generation is deleted only
\* after the alias update of the new one has succeeded: no step before the
\* alias update deletes the collection that readers resolve at that moment.
C22_DeleteOnlyAfterPublish ==
    [][(Active /\ pc # "swap_alias" /\ pc' # "done") =>
          \A c \in Resolve(QDRANT_COLLECTION) : c \in DOMAIN collections']_vars

\* C23: in every run the alias update is performed at most once, and only
\* after every upsert batch of the run has returned; a run that returns
\* "completed" has performed it exactly once.
C23_PublishOnceAfterUploads ==
    [][/\ (aliases' # aliases) =>
             /\ pc = "swap_alias"
             /\ upsert_i > Len(embedded_chunks)
             /\ aliases' = (QDRANT_COLLECTION :> temp_collection) @@ aliases
             /\ pc' = "done"
       /\ (pc # "done" /\ pc' = "done" /\ response'.status = "completed") =>
             /\ pc = "swap_alias"
             /\ aliases' # aliases
             /\ Resolve(QDRANT_COLLECTION)' = {temp_collection}]_vars

\* A completed run that uploaded more than one batch and whose alias update
\* published its staging collection.
C23_Witness ==
    /\ Done
    /\ response.status = "completed"
    /\ Len(embedded_chunks) > UpsertBatchSize
    /\ upsert_i > Len(embedded_chunks)
    /\ QDRANT_COLLECTION \in DOMAIN aliases
    /\ aliases[QDRANT_COLLECTION] = temp_collection

ScenarioChunked == chunker.pc = "scenario"

\* The middle paragraph of the section goes over the budget with the
\* paragraph before it and with the paragraph after it.
MiddleFitsNeither ==
    /\ chunker.section[1].tokens + chunker.section[2].tokens > ScenarioMaxTokens
    /\ chunker.section[2].tokens + chunker.section[3].tokens > ScenarioMaxTokens

\* C24, as stated: a section of three paragraphs whose body is 600 tokens,
\* whatever the sizes of the paragraphs, chunked with max_tokens = 500,
\* gives exactly 2 text chunks, each made of whole paragraphs.
C24_ThreeParagraphsTwoChunks ==
    ScenarioChunked =>
        /\ Len(chunker.text_chunks) = 2
        /\ JoinTexts(chunker.text_chunks, 1) = chunker.section

\* C24, amended: such a section gives 2 text chunks, or 3 when the middle
\* paragraph goes over max_tokens with either neighbour, each made of whole
\* paragraphs, in order.
C24_ThreeParagraphsTwoOrThreeChunks ==
    ScenarioChunked =>
        /\ Len(chunker.text_chunks) = IF MiddleFitsNeither THEN 3 ELSE 2
        /\ \A k \in DOMAIN chunker.text_chunks : chunker.text_chunks[k].text # <<>>
        /\ JoinTexts(chunker.text_chunks, 1) = chunker.section

\* A section whose paragraphs are all within max_tokens and that is chunked
\* into three.
C24_Witness ==
    /\ ScenarioChunked
    /\ MiddleFitsNeither
    /\ \A i \in 1..3 : chunker.section[i].tokens <= ScenarioMaxTokens
    /\ Len(chunker.text_chunks) = 3

Assembled == assembly.op # "none"

\* C25: the context holds a prefix of the retrieved chunks, each whole, up
\* to the first chunk that would take it over the character budget, and the
\* text of the context is never longer than max_context_length.
C25_ContextWithinBudget ==
    Assembled =>
        LET n == Len(assembly.context_parts)
        IN  /\ n <= Len(assembly.search_results)
            /\ assembly.context_parts = SubSeq(assembly.search_results, 1, n)
            /\ (n < Len(assembly.search_results)) =>
                  SumLengths(assembly.context_parts, 1)
                      + assembly.search_results[n + 1].chunk_length > max_context_length
            /\ assembly.context_length <= max_context_length

\* The (source, heading) pair of the chunk at a place of the context.
PairAt(i) == <<assembly.context_parts[i].doc_path, assembly.context_parts[i].heading>>

\* The places of the context where its pair occurs for the first time.
FirstOccurrences ==
    { i \in DOMAIN assembly.context_parts : \A j \in 1..(i - 1) : PairAt(j) # PairAt(i) }

\* C26: the citations are one per distinct (source, heading) pair among the
\* chunks used for the answer, in the order in which the pairs first occur.
C26_CitationsDistinctInOrder ==
    Assembled =>
        /\ Len(assembly.citations) = Cardinality(FirstOccurrences)
        /\ \A k \in DOMAIN assembly.citations :
              \E i \in FirstOccurrences :
                  /\ PairAt(i) = assembly.citations[k]
                  /\ Cardinality({ j \in FirstOccurrences : j <= i }) = k

\* ============================================= a call of the upload alone
\* upsert_chunks_to_qdrant(chunks, collection_name) is a public method of
\* IndexerService: besides reindex_full, any caller may hand it chunks, with
\* or without an embedding.  The chunks of such a call:
UploadChunks ==
    { [file |-> f, index |-> 1, embedding |-> e] :
        f \in 1..MaxFiles,
        e \in {NoEmbedding} \cup { [set |-> TRUE, call |-> c] : c \in 1..max_retries } }

\* The state at the first statement of upsert_chunks_to_qdrant: the chunks
\* of the call, the collection named by collection_name there or not.
InitUpload ==
    /\ collections \in { NoCollections, (TempCollectionName(0) :> {}) }
    /\ aliases = NoAliases
    /\ now = 0
    /\ corpus = NoDir
    /\ pc = "upload"
    /\ temp_collection = TempCollectionName(0)
    /\ file_idx = 1
    /\ all_chunks = <<>>
    /\ embed_i = 1
    /\ attempt = 1
    /\ embedded_chunks \in SeqsUpTo(UploadChunks, MaxUploadChunks)
    /\ upsert_i = 1
    /\ uuid_count = 0
    /\ existing_collections = {}
    /\ response = NoResponse
    /\ run_no = 1
    /\ names_taken = {}
    /\ call_log = <<>>
    /\ wait_log = <<>>
    /\ failed_at = ""
    /\ prev_points = NoPrev
    /\ search = NoSearch
    /\ QueryIdle
    /\ LibIdle

NextUpload ==
    \/ UpsertBatch
    \/ UploadDone

SpecUpload == InitUpload /\ [][NextUpload]_vars

\* The chunk a point of this call was made of: the k-th uuid4 of the call
\* is drawn for the k-th chunk.
ChunkOfPoint(p) == embedded_chunks[p.id[2]]

\* C27: every point the call has upserted was made of a chunk of the call
\* whose embedding is set, and carries that embedding as its vector; a chunk
\* without an embedding has no point.
C27_NoPointWithoutEmbedding ==
    \A p \in StagingPoints :
        p.id[1] = run_no =>
            /\ p.id[2] \in 1..Len(embedded_chunks)
            /\ ChunkOfPoint(p).embedding.set
            /\ p.vector = ChunkOfPoint(p).embedding.call
            /\ p.file = ChunkOfPoint(p).file

C27_Witness ==
    /\ pc = "swap_list"
    /\ Len(embedded_chunks) = 2
    /\ ~embedded_chunks[1].embedding.set
    /\ embedded_chunks[2].embedding.set
    /\ Cardinality(StagingPoints) = 1
    /\ \A p \in StagingPoints : p.id = <<run_no, 2>>

\* ================================================ the outcome of a run
\* The calls of reindex_full's try block that can raise.
FailingSteps ==
    {"create_collection", "index_documents", "embed_chunks", "upsert",
     "get_collections", "delete_collection", "update_collection_aliases"}

FailedSummary == [status |-> "failed", total_files |-> 0, total_chunks |-> 0]

\* C28: a run that has ended has returned a summary whose status is
\* "completed" or "failed"; a run in which a step raised has returned the
\* failed summary with total_files = total_chunks = 0, and a run in which
\* no step raised has returned a completed one.
C28_EveryRunReturnsSummary ==
    Done =>
        /\ response.status \in {"completed", "failed"}
        /\ failed_at \in FailingSteps \cup {""}
        /\ failed_at # "" => response = FailedSummary
        /\ failed_at = "" => response.status = "completed"

C28_Witness ==
    /\ Done
    /\ failed_at = "update_collection_aliases"
    /\ Len(corpus.files) > 0
    /\ Len(embedded_chunks) > 0
    /\ response = FailedSummary

\* ===================================== chunk_text of the indexing scripts
\* scripts/index_textbook.py chunk_text and scripts/index_docs.py
\* chunk_text_by_tokens cut the token sequence of a text into windows of
\* max_tokens tokens that overlap by overlap_tokens.  A text is its number
\* of tokens; a chunk is the slice tokens[start:end] as the pair of its
\* bounds.  The list of chunks grows by one per pass; of the list the last
\* chunk is kept and whether len(chunks) is odd.
ChunkFunctions == {"chunk_text", "chunk_text_by_tokens"}

\* The arguments with 0 < overlap_tokens < max_tokens.
ChunkArguments ==
    { <<m, o>> \in (1..MaxChunkTokens) \X (1..MaxChunkTokens) : 0 < o /\ o < m }

\* tokens[start:end] of a list of n tokens: a negative start counts from
\* the end of the list and is clamped at 0.
Slice(n, start, end) ==
    <<IF start < 0 THEN (IF n + start < 0 THEN 0 ELSE n + start) ELSE Min(start, n), Min(end, n)>>

splitterFrame == <<storeVars, envVars, runVars, histVars, search, queryVars, chunker, parser,
                   limiter, translator, assembly>>

\* The call up to the while statement: tokens = encoding.encode(text),
\* chunks = [], start = 0; chunk_text_by_tokens returns [text] at once when
\* len(tokens) <= max_tokens.
ChunkTextCall ==
    /\ splitter.pc = "idle"
    /\ \E fn \in ChunkFunctions, n \in 0..MaxTextTokens, a \in ChunkArguments :
        splitter' = [pc |-> IF fn = "chunk_text_by_tokens" /\ n <= a[1]
                            THEN "returned" ELSE "while",
                     fn |-> fn, tokens |-> n, max_tokens |-> a[1],
                     overlap_tokens |-> a[2], start |-> 0,
                     chunk |-> IF fn = "chunk_text_by_tokens" /\ n <= a[1]
                               THEN <<0, n>> ELSE <<0, 0>>,
                     odd |-> fn = "chunk_text_by_tokens" /\ n <= a[1]]
    /\ UNCHANGED splitterFrame

\* One pass of the while loop of chunk_text:
\*   end = min(start + max_tokens, len(tokens)); chunks.append(...)
\*   start = end - overlap_tokens
\*   if start >= len(tokens): break
ChunkTextPass ==
    /\ splitter.pc = "while"
    /\ splitter.fn = "chunk_text"
    /\ splitter.start < splitter.tokens
    /\ LET end == Min(splitter.start + splitter.max_tokens, splitter.tokens)
           next_start == end - splitter.overlap_tokens
       IN  splitter' = [splitter EXCEPT
                            !.chunk = Slice(splitter.tokens, splitter.start, end),
                            !.odd = ~@,
                            !.start = next_start,
                            !.pc = IF next_start >= splitter.tokens
                                   THEN "returned" ELSE "while"]
    /\ UNCHANGED splitterFrame

\* One pass of the while loop of chunk_text_by_tokens:
\*   end = min(start + max_tokens, len(tokens)); chunks.append(...)
\*   if end >= len(tokens): break
\*   start = end - overlap_tokens
ChunkTextByTokensPass ==
    /\ splitter.pc = "while"
    /\ splitter.fn = "chunk_text_by_tokens"
    /\ splitter.start < splitter.tokens
    /\ LET end == Min(splitter.start + splitter.max_tokens, splitter.tokens)
       IN  splitter' = [splitter EXCEPT
                            !.chunk = Slice(splitter.tokens, splitter.start, end),
                            !.odd = ~@,
                            !.start = IF end >= splitter.tokens
                                      THEN @ ELSE end - splitter.overlap_tokens,
                            !.pc = IF end >= splitter.tokens
                                   THEN "returned" ELSE "while"]
    /\ UNCHANGED splitterFrame

\* The while condition is false: return chunks.
ChunkTextReturn ==
    /\ splitter.pc = "while"
    /\ splitter.start >= splitter.tokens
    /\ splitter' = [splitter EXCEPT !.pc = "returned"]
    /\ UNCHANGED splitterFrame

InitSplitter ==
    /\ Quiet
    /\ LibIdle

NextSplitter ==
    \/ ChunkTextCall
    \/ ChunkTextPass
    \/ ChunkTextByTokensPass
    \/ ChunkTextReturn

SpecSplitter == InitSplitter /\ [][NextSplitter]_vars

\* The interpreter keeps executing a call that has a next statement.
FairSpecSplitter == SpecSplitter /\ WF_vars(NextSplitter)

\* C29: every call of chunk_text of the textbook indexing script returns.
C29_ChunkTextTerminates ==
    (splitter.pc = "while" /\ splitter.fn = "chunk_text") ~> (splitter.pc = "returned")

\* Every call of chunk_text_by_tokens of scripts/index_docs.py returns.
ChunkTextByTokensTerminates ==
    (splitter.pc = "while" /\ splitter.fn = "chunk_text_by_tokens") ~> (splitter.pc = "returned")

\* ============================================ the store of the rate limiter
\* s is t with some of its elements left out, the others in place.
RECURSIVE IsSubSeq(_, _)
IsSubSeq(s, t) ==
    IF s = <<>> THEN TRUE
    ELSE IF t = <<>> THEN FALSE
    ELSE IF Head(s) = Head(t) THEN IsSubSeq(Tail(s), Tail(t))
    ELSE IsSubSeq(s, Tail(t))

\* The step is a call of check_rate_limit by ip that raises HTTP 429.
Refused(ip) == limiter'.last = [client_ip |-> ip, status_code |-> 429]

\* Never more than limit timestamps are stored for an IP; after a call of an
\* IP every timestamp stored for it is inside the window.
StoreWithinLimit ==
    /\ \A ip \in ClientIps : Len(limiter.request_timestamps[ip]) <= limit
    /\ (limiter.last # NoDecision) =>
          \A i \in DOMAIN limiter.request_timestamps[limiter.last.client_ip] :
              InWindow(limiter.request_timestamps[limiter.last.client_ip][i], limiter.time)

\* A refused call adds no timestamp: what is stored for the IP afterwards
\* is what was stored before, less the timestamps out of the window.
RefusedRecordsNothing ==
    \A ip \in ClientIps :
        (limiter' # limiter /\ Refused(ip)) =>
            /\ IsSubSeq(limiter'.request_timestamps[ip], limiter.request_timestamps[ip])
            /\ limiter'.accepted = limiter.accepted

\* C30: in every reachable state every IP has at most limit timestamps
\* stored, every timestamp stored for the IP of a call is inside the window
\* once the call is over, and a refused call records no timestamp.
C30_StoredTimestampsBounded == [](StoreWithinLimit) /\ [][RefusedRecordsNothing]_vars

C30_Witness ==
    /\ limiter.last # NoDecision
    /\ limiter.last.status_code = 429
    /\ Len(limiter.request_timestamps[limiter.last.client_ip]) = limit
    /\ Len(limiter.accepted[limiter.last.client_ip]) > limit

====
